---- MODULE Spec2Model ----
(***************************************************************************)
(* A model of scripts/tdvf_module.py: the Address value class, the         *)
(* TdvfModule entity and the TdvfModuleTable collection.                   *)
(*                                                                         *)
(* Python values are modelled as follows.                                  *)
(*   - an int is a TLA+ integer (Python ints are unbounded, so sums are    *)
(*     exact); the 64-bit address limit is scaled to AddrBits bits;        *)
(*   - an argument that may be an int or a str is a tagged record          *)
(*     (PyInt / PyStr); a hexadecimal string is its "0x" flag and its      *)
(*     digits, most significant first;                                     *)
(*   - a path is a record [dir, base, ext]; None is the record NonePath;   *)
(*   - a raised exception is the result record's ok = FALSE (or, for an    *)
(*     Address, the NoAddress value); AssertionError is modelled with      *)
(*     asserts enabled.                                                    *)
(***************************************************************************)
EXTENDS Integers, Sequences, FiniteSets, TLC

VARIABLES
    a, b, r,        \* three Address references of a client (r: last sum)
    m,              \* one TdvfModule object of a client
    base_given,     \* history: img_base of m was passed or assigned by the client
    table,          \* one TdvfModuleTable object: whether __modules is set, and its value
    file,           \* the JSON file the table is written to / read from
    last            \* history: the last call, its arguments and its outcome

vars == <<a, b, r, m, base_given, table, file, last>>

----------------------------------------------------------------------------
(* Bounds *)

\* number of address bits (the program's ADDR_MAX_VAL is 2^64 - 1)
AddrBits == 5

\* longest list of modules / records handed to the table
MaxRecords == 2

----------------------------------------------------------------------------
(* class Address *)

ADDR_MAX_VAL == 2 ^ AddrBits - 1

PyInt(n) == [kind |-> "int", n |-> n, prefix |-> FALSE, digits |-> <<>>]
PyStr(prefix, digits) == [kind |-> "str", n |-> 0, prefix |-> prefix, digits |-> digits]

\* the digits of hex(v)[2:], v >= 0
RECURSIVE HexDigits(_)
HexDigits(v) == IF v < 16 THEN <<v>> ELSE Append(HexDigits(v \div 16), v % 16)

\* hex(v), v >= 0
hex(v) == PyStr(TRUE, HexDigits(v))

RECURSIVE DigitsValue(_)
DigitsValue(ds) ==
    IF ds = <<>> THEN 0
    ELSE 16 * DigitsValue(SubSeq(ds, 1, Len(ds) - 1)) + ds[Len(ds)]

\* int(s, 16): ValueError on a string without digits
ParseInt16(s) ==
    IF s.digits = <<>> THEN [ok |-> FALSE, n |-> 0]
    ELSE [ok |-> TRUE, n |-> DigitsValue(s.digits)]

\* the absent object: the constructor raised
NoAddress == [value |-> -1, address |-> PyStr(FALSE, <<>>)]

IsAddress(x) == x # NoAddress

\* a mutant of AddressInit: the value is reduced modulo 2^bits instead of checked
AddressInitWrap(value) ==
    LET p == IF value.kind = "str" THEN ParseInt16(value) ELSE [ok |-> TRUE, n |-> value.n]
        v == p.n % (ADDR_MAX_VAL + 1)
    IN  IF ~p.ok THEN NoAddress ELSE [value |-> v, address |-> hex(v)]

\* Address.__init__
AddressInit(value) ==
    LET p == IF value.kind = "str" THEN ParseInt16(value) ELSE [ok |-> TRUE, n |-> value.n]
    IN  IF ~p.ok THEN NoAddress
        ELSE IF ~(p.n >= 0) THEN NoAddress
        ELSE IF ~(p.n <= ADDR_MAX_VAL) THEN NoAddress
        ELSE [value |-> p.n, address |-> hex(p.n)]

\* Address.__str__
AddressStr(x) == x.address

\* Address.__int__
AddressInt(x) == x.value

\* Address.__add__, other an Address
AddressAdd(x, other) == AddressInit(PyInt(AddressInt(x) + AddressInt(other)))

\* Address.__add__, other an int
AddressAddInt(x, n) == AddressInit(PyInt(AddressInt(x) + n))

\* Address.__lt__, __eq__
AddressLt(x, y) == x.value < y.value
AddressEq(x, y) == x.value = y.value

\* bool(x) of an Address: the class defines neither __bool__ nor __len__
AddressBool(x) == TRUE

----------------------------------------------------------------------------
(* The Address client *)

\* arguments tried for Address(value)
AddressArgs ==
    {PyInt(n) : n \in {-1, 0, 1, 2 ^ (AddrBits - 1), ADDR_MAX_VAL - 1,
                       ADDR_MAX_VAL, ADDR_MAX_VAL + 1}}
    \cup {hex(n) : n \in {0, 2 ^ (AddrBits - 1) + 1, ADDR_MAX_VAL, ADDR_MAX_VAL + 1}}
    \cup {PyStr(FALSE, <<1, 0>>), PyStr(TRUE, <<>>)}

\* ints tried for Address + int
AddInts == {-1, 0, 1, ADDR_MAX_VAL}

NoCall == [op |-> "none", x |-> 0, y |-> 0, ok |-> TRUE]

ArgValue(value) == IF value.kind = "str" THEN DigitsValue(value.digits) ELSE value.n

InitAddr ==
    /\ a = AddressInit(PyInt(0))
    /\ b = AddressInit(PyInt(0))
    /\ r = NoAddress
    /\ m = 0 /\ base_given = FALSE /\ table = 0 /\ file = 0
    /\ last = NoCall

\* a = Address(value) / b = Address(value)
AddrNew ==
    \E value \in AddressArgs, which \in {"a", "b"} :
        LET x == AddressInit(value) IN
        /\ a' = IF which = "a" /\ IsAddress(x) THEN x ELSE a
        /\ b' = IF which = "b" /\ IsAddress(x) THEN x ELSE b
        /\ last' = [op |-> "new", x |-> ArgValue(value), y |-> 0, ok |-> IsAddress(x)]
        /\ UNCHANGED <<r, m, base_given, table, file>>

\* r = a + b
AddrAdd ==
    /\ r' = AddressAdd(a, b)
    /\ last' = [op |-> "add", x |-> a.value, y |-> b.value, ok |-> IsAddress(r')]
    /\ UNCHANGED <<a, b, m, base_given, table, file>>

\* r = a + n
AddrAddInt ==
    \E n \in AddInts :
        /\ r' = AddressAddInt(a, n)
        /\ last' = [op |-> "addint", x |-> a.value, y |-> n, ok |-> IsAddress(r')]
        /\ UNCHANGED <<a, b, m, base_given, table, file>>

NextAddr == AddrNew \/ AddrAdd \/ AddrAddInt

SpecAddr == InitAddr /\ [][NextAddr]_vars

----------------------------------------------------------------------------
\* C5: every Address lies in 0..ADDR_MAX_VAL with its text the hex of its
\* value; Address(v) fails for v < 0 and v > ADDR_MAX_VAL; an addition whose
\* sum exceeds ADDR_MAX_VAL fails and does not wrap; a successful addition
\* yields the exact sum and leaves both operands as they were.
AddressInRange(x) ==
    IsAddress(x) => /\ x.value \in 0 .. ADDR_MAX_VAL
                    /\ DigitsValue(x.address.digits) = x.value

C5_AddressRange ==
    /\ AddressInRange(a) /\ AddressInRange(b) /\ AddressInRange(r)
    /\ IsAddress(a) /\ IsAddress(b)
    /\ last.op = "new" /\ (last.x < 0 \/ last.x > ADDR_MAX_VAL) => ~last.ok
    /\ last.op \in {"add", "addint"} =>
         /\ a.value = last.x
         /\ last.op = "add" => b.value = last.y
         /\ last.x + last.y > ADDR_MAX_VAL => ~last.ok /\ r = NoAddress
         /\ last.ok => r.value = last.x + last.y

\* an addition overflowed and was refused
C5_Witness ==
    /\ last.op = "add" /\ ~last.ok
    /\ last.x + last.y > ADDR_MAX_VAL /\ last.x > 0 /\ last.y > 0

----------------------------------------------------------------------------
(* class TdvfModule *)

NonePath == [dir |-> "", base |-> "", ext |-> ""]
DirPath(d) == [dir |-> d, base |-> "", ext |-> ""]

\* bin_path + '/' + name + ext
JoinPath(bin_path, name, ext) == [dir |-> bin_path.dir, base |-> name, ext |-> ext]

\* the file system, as os.path.exists sees it: module "c" has no .efi file
ExistingPaths ==
    {DirPath("bin")}
    \cup {JoinPath(DirPath("bin"), n, e) : n \in {"a", "b"}, e \in {".debug", ".efi"}}
    \cup {JoinPath(DirPath("bin"), "c", ".debug")}

PathExists(path) == path \in ExistingPaths

\* the result of a call on a module: ok = FALSE when it raised, err its message,
\* obj the module as the call left it
Ok(self) == [ok |-> TRUE, err |-> "", obj |-> self]
Raise(self, err) == [ok |-> FALSE, err |-> err, obj |-> self]

\* an Address passed on as a constructor argument: Address(addr) reads int(addr)
AsArg(x) == PyInt(AddressInt(x))

\* the attributes of an object before __init__ has assigned them
BlankModule ==
    [name |-> "", img_base |-> NoAddress, t_start |-> NoAddress, t_end |-> NoAddress,
     t_size |-> 0, bin_path |-> NonePath, dbg_path |-> NonePath, efi_path |-> NonePath]

NameSetter(self, name) == Ok([self EXCEPT !.name = name])

ImgBaseSetter(self, addr) ==
    LET x == AddressInit(addr)
    IN  IF IsAddress(x) THEN Ok([self EXCEPT !.img_base = x])
        ELSE Raise(self, "address value")

TStartSetter(self, addr) ==
    LET x == AddressInit(addr)
    IN  IF IsAddress(x) THEN Ok([self EXCEPT !.t_start = x])
        ELSE Raise(self, "address value")

TEndSetter(self, addr) ==
    LET x == AddressInit(addr)
    IN  IF IsAddress(x) THEN Ok([self EXCEPT !.t_end = x])
        ELSE Raise(self, "address value")

TSizeSetter(self, size) ==
    IF ~(size >= 0) THEN Raise(self, ".text size value must be positive")
    ELSE Ok([self EXCEPT !.t_size = size])

BinPathSetter(self, path) ==
    IF path # NonePath /\ ~PathExists(path)
    THEN Raise(self, "invalid path to module binary directory")
    ELSE Ok([self EXCEPT !.bin_path = path])

DbgPathSetter(self, path) ==
    LET p == IF path = NonePath /\ self.bin_path # NonePath /\ self.name # ""
             THEN JoinPath(self.bin_path, self.name, ".debug") ELSE path
    IN  IF p # NonePath /\ ~(p.ext = ".debug" /\ PathExists(p))
        THEN Raise(self, "invalid path to module .debug file")
        ELSE Ok([self EXCEPT !.dbg_path = p])

EfiPathSetter(self, path) ==
    LET p == IF path = NonePath /\ self.bin_path # NonePath /\ self.name # ""
             THEN JoinPath(self.bin_path, self.name, ".efi") ELSE path
    IN  IF p # NonePath /\ ~(p.ext = ".efi" /\ PathExists(p))
        THEN Raise(self, "invalid path to module .efi file")
        ELSE Ok([self EXCEPT !.efi_path = p])

\* statement sequencing: Step runs on the object res left, unless res raised
Then(res, Step(_)) == IF res.ok THEN Step(res.obj) ELSE res

\* TdvfModule.__init__: the setters in order, up to the first that raises
TdvfModuleInit(self, name, img_base, t_start, t_end, t_size, bin_path, dbg_path, efi_path) ==
    Then(Then(Then(Then(Then(Then(Then(
        NameSetter(self, name),
        LAMBDA o : ImgBaseSetter(o, img_base)),
        LAMBDA o : TStartSetter(o, t_start)),
        LAMBDA o : TEndSetter(o, t_end)),
        LAMBDA o : TSizeSetter(o, t_size)),
        LAMBDA o : BinPathSetter(o, bin_path)),
        LAMBDA o : DbgPathSetter(o, dbg_path)),
        LAMBDA o : EfiPathSetter(o, efi_path))

\* TdvfModule.set_module_paths
ModuleSetPaths(self, bin_path, dbg_path, efi_path) ==
    Then(Then(
        BinPathSetter(self, bin_path),
        LAMBDA o : DbgPathSetter(o, dbg_path)),
        LAMBDA o : EfiPathSetter(o, efi_path))

\* TdvfModule.to_dict
to_dict(self) ==
    [name |-> self.name,
     img_base |-> AddressStr(self.img_base),
     text_start |-> AddressStr(self.t_start),
     text_end |-> AddressStr(self.t_end),
     text_size |-> self.t_size,
     binary_path |-> self.bin_path,
     debug_path |-> self.dbg_path,
     efi_path |-> self.efi_path]

\* TdvfModule.from_dict, d a record with all eight keys
from_dict(self, d) ==
    TdvfModuleInit(self, d.name, d.img_base, d.text_start, d.text_end, d.text_size,
                   d.binary_path, d.debug_path, d.efi_path)

\* what pefile finds in a module's .efi file: ok = FALSE when it cannot be parsed
PEFile(BaseOfCode, SizeOfCode) == [ok |-> TRUE, BaseOfCode |-> BaseOfCode, SizeOfCode |-> SizeOfCode]
BadPEFile == [ok |-> FALSE, BaseOfCode |-> 0, SizeOfCode |-> 0]

\* TdvfModule.get_toffset_and_tsize: pefile.PE(self.efi_path) raises on None
get_toffset_and_tsize(self, pe) ==
    IF self.efi_path = NonePath \/ ~pe.ok THEN [ok |-> FALSE, toffset |-> NoAddress, tsize |-> 0]
    ELSE LET x == AddressInit(PyInt(pe.BaseOfCode))
         IN  [ok |-> IsAddress(x), toffset |-> x, tsize |-> pe.SizeOfCode]

\* the result of a computation: val its value, ok = FALSE when it raised
Val(x) == [ok |-> TRUE, err |-> "", val |-> x]
RaiseVal(err) == [ok |-> FALSE, err |-> err, val |-> NoAddress]

\* an Address expression as a computation: it raises when Address(...) does
Computed(x) == IF IsAddress(x) THEN Val(x) ELSE RaiseVal("address value")

\* TdvfModule.compute_tstart
compute_tstart(self, t_offset) ==
    IF ~AddressBool(self.img_base)
    THEN RaiseVal("cannot compute .text start without image base")
    ELSE Computed(AddressAdd(self.img_base, t_offset))

\* TdvfModule.compute_tend, called without arguments
compute_tend(self) ==
    LET t_start == self.t_start
        t_size == self.t_size
    IN  IF ~AddressBool(t_start)
        THEN RaiseVal("cannot compute .text end without .text start")
        ELSE IF t_size = 0
        THEN RaiseVal("cannot compute .text end without .text size")
        ELSE Computed(AddressInit(PyInt(AddressInt(t_start) + t_size)))

\* fill_text_info, its last statement: self.t_end = self.compute_tend()
FillTEnd(self) ==
    LET te == compute_tend(self)
    IN  IF te.ok THEN TEndSetter(self, AsArg(te.val)) ELSE Raise(self, te.err)

\* fill_text_info, its second statement: self.t_start = self.compute_tstart(t_offset)
FillTStart(self, t_offset) ==
    LET ts == compute_tstart(self, t_offset)
    IN  IF ts.ok THEN TStartSetter(self, AsArg(ts.val)) ELSE Raise(self, ts.err)

\* fill_text_info, its first statement:
\* t_offset, self.t_size = self.get_toffset_and_tsize()
FillTSize(self, pe) ==
    LET g == get_toffset_and_tsize(self, pe)
    IN  IF g.ok THEN TSizeSetter(self, g.tsize) ELSE Raise(self, "pefile")

\* TdvfModule.fill_text_info; efi_path the argument (NonePath when omitted),
\* pe the content of the file at self.efi_path
ModuleFillTextInfo(self, efi_path, pe) ==
    IF (IF efi_path = NonePath THEN self.efi_path ELSE efi_path) = NonePath
    THEN Raise(self, "must specify a valid module .efi file path")
    ELSE Then(Then(
            FillTSize(self, pe),
            LAMBDA o : FillTStart(o, get_toffset_and_tsize(self, pe).toffset)),
            FillTEnd)

\* TdvfModule.__lt__
ModuleLt(self, other) ==
    \/ AddressLt(self.t_start, other.t_start)
    \/ AddressEq(self.t_start, other.t_start) /\ AddressLt(self.t_end, other.t_end)

----------------------------------------------------------------------------
(* class TdvfModuleTable *)

\* an OrderedDict name -> module is the sequence of its values in iteration
\* order; every key is the name of its value

\* sorted(iterable) on modules: stable, decided by __lt__ alone
RECURSIVE InsertSorted(_, _)
InsertSorted(s, x) ==
    IF s = <<>> THEN <<x>>
    ELSE IF ModuleLt(x, s[1]) THEN <<x>> \o s
    ELSE <<s[1]>> \o InsertSorted(Tail(s), x)

RECURSIVE sorted(_)
sorted(s) ==
    IF s = <<>> THEN <<>>
    ELSE InsertSorted(sorted(SubSeq(s, 1, Len(s) - 1)), s[Len(s)])

\* d[x.name] = x: a new key is appended, a known key keeps its place
DictPut(d, x) ==
    IF \E i \in DOMAIN d : d[i].name = x.name
    THEN [i \in DOMAIN d |-> IF d[i].name = x.name THEN x ELSE d[i]]
    ELSE Append(d, x)

\* OrderedDict((m.name, m) for m in s)
RECURSIVE OrderedDict(_)
OrderedDict(s) ==
    IF s = <<>> THEN <<>>
    ELSE DictPut(OrderedDict(SubSeq(s, 1, Len(s) - 1)), s[Len(s)])

\* a table object on which __modules was never assigned
NewTable == [attr |-> FALSE, modules |-> <<>>]

\* TdvfModuleTable.modules (setter); ms a list of TdvfModule objects (None is [])
ModulesSetter(self, ms) == Ok([attr |-> TRUE, modules |-> OrderedDict(sorted(ms))])

\* module_adrs == sorted(module_adrs)
AddressesSorted(ms) ==
    \A i \in 1 .. Len(ms) - 1 : ~AddressLt(ms[i + 1].t_start, ms[i].t_start)

\* TdvfModuleTable.__init__; ms the values of the dict passed (None is <<>>)
TableInit(self, ms) ==
    IF ms = <<>> THEN Ok(self)
    ELSE Then(ModulesSetter(self, sorted(ms)),
              LAMBDA o : IF AddressesSorted(o.modules) THEN Ok(o)
                         ELSE Raise(o, "AssertionError"))

\* for module in self.modules.values(): module.set_module_paths(bin_path),
\* from the i-th module on
RECURSIVE SetPathsFrom(_, _, _)
SetPathsFrom(ms, i, bin_path) ==
    IF i > Len(ms) THEN [ok |-> TRUE, err |-> "", obj |-> ms, tried |-> Len(ms)]
    ELSE LET res == ModuleSetPaths(ms[i], bin_path, NonePath, NonePath)
         IN  IF res.ok THEN SetPathsFrom([ms EXCEPT ![i] = res.obj], i + 1, bin_path)
             ELSE [ok |-> FALSE, err |-> res.err, obj |-> [ms EXCEPT ![i] = res.obj],
                   tried |-> i]

\* TdvfModuleTable.set_module_paths
TableSetModulePaths(self, bin_path) ==
    IF ~self.attr THEN [ok |-> FALSE, err |-> "AttributeError", obj |-> self, tried |-> 0]
    ELSE LET res == SetPathsFrom(self.modules, 1, bin_path)
         IN  [res EXCEPT !.obj = [self EXCEPT !.modules = res.obj]]

\* a mutant of FillFrom: a module that fails is skipped and the loop goes on
RECURSIVE FillFromCollect(_, _, _)
FillFromCollect(ms, i, pes) ==
    IF i > Len(ms) THEN [ok |-> TRUE, err |-> "", obj |-> ms, tried |-> Len(ms)]
    ELSE LET res == ModuleFillTextInfo(ms[i], NonePath, pes[ms[i].name])
             rest == FillFromCollect([ms EXCEPT ![i] = res.obj], i + 1, pes)
         IN  IF res.ok THEN rest
             ELSE [rest EXCEPT !.ok = FALSE, !.err = res.err]

\* for m in self.modules.values(): m.fill_text_info(), from the i-th module on;
\* pes the content of the .efi file of each module; tried counts the modules
\* on which fill_text_info was called
RECURSIVE FillFrom(_, _, _)
FillFrom(ms, i, pes) ==
    IF i > Len(ms) THEN [ok |-> TRUE, err |-> "", obj |-> ms, tried |-> Len(ms)]
    ELSE LET res == ModuleFillTextInfo(ms[i], NonePath, pes[ms[i].name])
         IN  IF res.ok THEN FillFrom([ms EXCEPT ![i] = res.obj], i + 1, pes)
             ELSE [ok |-> FALSE, err |-> res.err, obj |-> [ms EXCEPT ![i] = res.obj],
                   tried |-> i]

\* TdvfModuleTable.fill_text_info
TableFillTextInfo(self, pes) ==
    IF ~self.attr THEN [ok |-> FALSE, err |-> "AttributeError", obj |-> self, tried |-> 0]
    ELSE LET res == FillFrom(self.modules, 1, pes)
         IN  [res EXCEPT !.obj = [self EXCEPT !.modules = res.obj]]

\* self.modules.keys()
Keys(ms) == [i \in DOMAIN ms |-> ms[i].name]

\* self.modules[name]
GetItem(ms, name) == ms[CHOOSE i \in DOMAIN ms : ms[i].name = name]

\* a mutant of to_json: the selected modules are emitted in the table's order
to_json_table_order(self, only_modules) ==
    IF ~self.attr THEN [ok |-> FALSE, err |-> "AttributeError", val |-> <<>>]
    ELSE IF \E k \in DOMAIN only_modules :
                \A i \in DOMAIN self.modules : self.modules[i].name # only_modules[k]
         THEN [ok |-> FALSE, err |-> "KeyError", val |-> <<>>]
         ELSE LET sel == SelectSeq(self.modules,
                           LAMBDA x : only_modules = <<>>
                                      \/ \E k \in DOMAIN only_modules : only_modules[k] = x.name)
              IN  [ok |-> TRUE, err |-> "", val |-> [i \in DOMAIN sel |-> to_dict(sel[i])]]

\* TdvfModuleTable.to_json: the list handed to json.dumps
to_json(self, only_modules) ==
    IF ~self.attr THEN [ok |-> FALSE, err |-> "AttributeError", val |-> <<>>]
    ELSE LET names == IF only_modules = <<>> THEN Keys(self.modules) ELSE only_modules
         IN  IF \E k \in DOMAIN names :
                    \A i \in DOMAIN self.modules : self.modules[i].name # names[k]
             THEN [ok |-> FALSE, err |-> "KeyError", val |-> <<>>]
             ELSE [ok |-> TRUE, err |-> "",
                   val |-> [k \in DOMAIN names |-> to_dict(GetItem(self.modules, names[k]))]]

\* a file: whether it exists, whether it holds JSON, the array it holds and,
\* as history, the table modules and the filter it was written from
NoFile == [exists |-> FALSE, json |-> FALSE, records |-> <<>>, by |-> "", src |-> <<>>,
           only |-> <<>>]

\* TdvfModuleTable.write_to_file: open(file_name, 'w') truncates the file
\* before to_json runs
write_to_file(self, only_modules) ==
    LET res == to_json(self, only_modules)
    IN  IF res.ok
        THEN [ok |-> TRUE, err |-> "",
              file |-> [exists |-> TRUE, json |-> TRUE, records |-> res.val,
                        by |-> "table", src |-> self.modules, only |-> only_modules]]
        ELSE [ok |-> FALSE, err |-> res.err,
              file |-> [exists |-> TRUE, json |-> FALSE, records |-> <<>>,
                        by |-> "table", src |-> <<>>, only |-> only_modules]]

\* TdvfModule()
DefaultModule ==
    TdvfModuleInit(BlankModule, "", PyInt(0), PyInt(0), PyInt(0), 0,
                   NonePath, NonePath, NonePath).obj

\* read_from_file, its loop: m = TdvfModule(); m.from_dict(minfo); modules[m.name] = m
RECURSIVE LoadModules(_)
LoadModules(module_info) ==
    IF module_info = <<>> THEN [ok |-> TRUE, err |-> "", obj |-> <<>>]
    ELSE LET n == Len(module_info)
         IN  Then(LoadModules(SubSeq(module_info, 1, n - 1)),
                  LAMBDA d : LET res == from_dict(DefaultModule, module_info[n])
                             IN  IF res.ok THEN Ok(DictPut(d, res.obj))
                                 ELSE Raise(d, res.err))

\* TdvfModuleTable.read_from_file
read_from_file(self, f) ==
    IF ~f.exists THEN Raise(self, "cannot find file")
    ELSE IF ~f.json THEN Raise(self, "JSONDecodeError")
    ELSE LET res == LoadModules(f.records)
         IN  IF res.ok THEN TableInit(self, res.obj) ELSE Raise(self, res.err)

----------------------------------------------------------------------------
(* The TdvfModule client: one module object and the calls made on it *)

ModNames == {"a", "c"}

\* image bases passed by the client
BaseVals == {0, 2 ^ (AddrBits - 1)}

\* (t_start, t_end, t_size) passed to the constructor
CtorText == {<<0, 0, 0>>, <<1, 2, 2>>}

\* BaseOfCode / SizeOfCode values of the .efi files
CodeOffsets == {0, 1, 2 ^ (AddrBits - 1)}
CodeSizes == {0, 2, 2 ^ (AddrBits - 1)}
PEFiles == {BadPEFile} \cup {PEFile(o, s) : o \in CodeOffsets, s \in CodeSizes}

BinArgs == {NonePath, DirPath("bin")}

\* a record as json.load returns it
Record(name, base, ts, te, size, bin) ==
    [name |-> name, img_base |-> base, text_start |-> ts, text_end |-> te,
     text_size |-> size, binary_path |-> bin, debug_path |-> NonePath,
     efi_path |-> NonePath]

\* records not written by to_dict
ForeignRecords ==
    {Record("a", PyStr(FALSE, <<1, 0>>), PyInt(17), hex(19), 2, DirPath("bin")),
     Record("c", hex(0), hex(ADDR_MAX_VAL + 1), hex(0), 0, NonePath)}

NoModCall ==
    [op |-> "none", ok |-> TRUE, err |-> "", B |-> 0, O |-> 0, S |-> 0,
     read |-> FALSE]

\* TdvfModule(name, ...) on a fresh object
NewModule(name, img_base, text, bin_path) ==
    TdvfModuleInit(BlankModule, name, PyInt(img_base), PyInt(text[1]), PyInt(text[2]),
                   text[3], bin_path, NonePath, NonePath)

InitModule ==
    /\ \E name \in ModNames : m = NewModule(name, 0, <<0, 0, 0>>, NonePath).obj
    /\ base_given = FALSE
    /\ a = 0 /\ b = 0 /\ r = 0 /\ table = 0 /\ file = 0
    /\ last = NoModCall

\* m = TdvfModule(name[, img_base][, t_start, t_end, t_size][, bin_path]):
\* m is rebound only when the constructor returns
ModNew ==
    \E name \in ModNames, given \in BOOLEAN, text \in CtorText, bin_path \in BinArgs :
        \E img_base \in (IF given THEN BaseVals ELSE {0}) :
            LET res == NewModule(name, img_base, text, bin_path) IN
            /\ m' = IF res.ok THEN res.obj ELSE m
            /\ base_given' = IF res.ok THEN given ELSE base_given
            /\ last' = [NoModCall EXCEPT !.op = "new", !.ok = res.ok, !.err = res.err]
            /\ UNCHANGED <<a, b, r, table, file>>

\* m.img_base = addr
ModImgBase ==
    \E addr \in BaseVals \cup {ADDR_MAX_VAL + 1} :
        LET res == ImgBaseSetter(m, PyInt(addr)) IN
        /\ m' = res.obj
        /\ base_given' = (res.ok \/ base_given)
        /\ last' = [NoModCall EXCEPT !.op = "img_base", !.ok = res.ok, !.err = res.err]
        /\ UNCHANGED <<a, b, r, table, file>>

\* m.from_dict(d): the attributes are assigned in place, up to the first failure
ModFromDict ==
    \E d \in {to_dict(m)} \cup ForeignRecords :
        LET res == from_dict(m, d) IN
        /\ m' = res.obj
        /\ base_given' = (IsAddress(AddressInit(d.img_base)) \/ base_given)
        /\ last' = [NoModCall EXCEPT !.op = "from_dict", !.ok = res.ok, !.err = res.err]
        /\ UNCHANGED <<a, b, r, table, file>>

\* m.set_module_paths(bin_path)
ModSetPaths ==
    \E bin_path \in BinArgs :
        LET res == ModuleSetPaths(m, bin_path, NonePath, NonePath) IN
        /\ m' = res.obj
        /\ last' = [NoModCall EXCEPT !.op = "set_module_paths", !.ok = res.ok,
                                     !.err = res.err]
        /\ UNCHANGED <<a, b, r, base_given, table, file>>

\* m.fill_text_info([efi_path])
ModFill ==
    \E pe \in PEFiles, efi_path \in {NonePath, JoinPath(DirPath("bin"), "a", ".efi")} :
        LET res == ModuleFillTextInfo(m, efi_path, pe) IN
        /\ m' = res.obj
        /\ last' = [op |-> "fill", ok |-> res.ok, err |-> res.err,
                    B |-> m.img_base.value, O |-> pe.BaseOfCode, S |-> pe.SizeOfCode,
                    read |-> get_toffset_and_tsize(m, pe).ok]
        /\ UNCHANGED <<a, b, r, base_given, table, file>>

NextModule == ModNew \/ ModImgBase \/ ModFromDict \/ ModSetPaths \/ ModFill

SpecModule == InitModule /\ [][NextModule]_vars

----------------------------------------------------------------------------
\* C3: when the reader returns offset O and size S for a module with image
\* base B and B + O + S <= ADDR_MAX_VAL, fill_text_info succeeds and leaves
\* text_size = S, text_start = B + O, text_end = text_start + S (S = 0 included).
C3_FillExact ==
    last.op = "fill" /\ last.read /\ last.B + last.O + last.S <= ADDR_MAX_VAL =>
        /\ last.ok
        /\ m.t_size = last.S
        /\ m.t_start.value = last.B + last.O
        /\ m.t_end.value = m.t_start.value + last.S

\* C3 restricted to S > 0 (what the code does provide)
C3_FillExactNonZero ==
    last.op = "fill" /\ last.read /\ last.B + last.O + last.S <= ADDR_MAX_VAL
        /\ last.S > 0 =>
        /\ last.ok
        /\ m.t_size = last.S
        /\ m.t_start.value = last.B + last.O
        /\ m.t_end.value = m.t_start.value + last.S

\* C7: the stored fields of a module always satisfy
\* text_end = text_start + text_size.
C7_TextEndConsistent == m.t_end.value = m.t_start.value + m.t_size

\* C7 for fill_text_info alone: a call on a consistent module leaves it consistent
C7_FillKeepsConsistent ==
    [][(last'.op = "fill" /\ m.t_end.value = m.t_start.value + m.t_size)
          => m'.t_end.value = m'.t_start.value + m'.t_size]_vars

\* C9: fill_text_info on a module whose image base was never set fails (with
\* the missing-image-base error) instead of computing text_start from the
\* default base; stated for a readable artifact with a non-zero code size,
\* where no other failure interferes.
C9_MissingImageBase ==
    last.op = "fill" /\ ~base_given /\ last.read /\ last.S > 0
        /\ last.B + last.O + last.S <= ADDR_MAX_VAL =>
        /\ ~last.ok
        /\ last.err = "cannot compute .text start without image base"

----------------------------------------------------------------------------
(* The TdvfModuleTable client: one table object, one file *)

TableNames == {"a", "b"}

\* the modules handed to the table: TdvfModule(name, img_base[, t_start, t_end, t_size])
TableModules ==
    {NewModule("a", 2 ^ (AddrBits - 1), <<0, 0, 0>>, NonePath).obj,
     NewModule("b", 0, <<0, 0, 0>>, NonePath).obj}
    \cup {NewModule(n, 0, <<1, 3, 2>>, NonePath).obj : n \in TableNames}

ModuleLists == UNION {[1 .. n -> TableModules] : n \in 0 .. MaxRecords}

\* the .efi files of the modules
TablePEFiles == {BadPEFile, PEFile(1, 2), PEFile(1, 0)}

\* name filters; no module is called "c"
Filters == UNION {[1 .. n -> TableNames \cup {"c"}] : n \in 0 .. MaxRecords}

NoTableCall ==
    [op |-> "none", ok |-> TRUE, err |-> "", ms |-> <<>>, only |-> <<>>, tried |-> 0,
     out |-> <<>>]

InitTable ==
    /\ table = NewTable
    /\ file = NoFile
    /\ a = 0 /\ b = 0 /\ r = 0 /\ m = 0 /\ base_given = FALSE
    /\ last = NoTableCall

\* mt = TdvfModuleTable(ms): mt is rebound only when the constructor returns
TableNew ==
    \E ms \in ModuleLists :
        LET res == TableInit(NewTable, ms) IN
        /\ table' = IF res.ok THEN res.obj ELSE table
        /\ last' = [NoTableCall EXCEPT !.op = "new", !.ok = res.ok, !.err = res.err,
                                       !.ms = ms]
        /\ UNCHANGED <<a, b, r, m, base_given, file>>

\* mt.modules = ms
TableSetModules ==
    \E ms \in ModuleLists :
        LET res == ModulesSetter(table, ms) IN
        /\ table' = res.obj
        /\ last' = [NoTableCall EXCEPT !.op = "setter", !.ok = res.ok, !.err = res.err,
                                       !.ms = ms]
        /\ UNCHANGED <<a, b, r, m, base_given, file>>

\* mt.set_module_paths(bin_path)
TableSetPaths ==
    \E bin_path \in BinArgs :
        LET res == TableSetModulePaths(table, bin_path) IN
        /\ table' = res.obj
        /\ last' = [NoTableCall EXCEPT !.op = "set_module_paths", !.ok = res.ok,
                                       !.err = res.err, !.tried = res.tried]
        /\ UNCHANGED <<a, b, r, m, base_given, file>>

\* mt.fill_text_info()
TableFill ==
    \E pes \in [TableNames -> TablePEFiles] :
        LET res == TableFillTextInfo(table, pes) IN
        /\ table' = res.obj
        /\ last' = [NoTableCall EXCEPT !.op = "fill", !.ok = res.ok, !.err = res.err,
                                       !.tried = res.tried]
        /\ UNCHANGED <<a, b, r, m, base_given, file>>

\* mt.to_json(only_modules); last.out is the list it returns
TableToJson ==
    \E only_modules \in Filters :
        LET res == to_json(table, only_modules) IN
        /\ last' = [NoTableCall EXCEPT !.op = "to_json", !.ok = res.ok, !.err = res.err,
                                       !.only = only_modules, !.out = res.val]
        /\ UNCHANGED <<a, b, r, m, base_given, table, file>>

\* mt.write_to_file(only_modules)
TableWrite ==
    \E only_modules \in Filters :
        LET res == write_to_file(table, only_modules) IN
        /\ file' = res.file
        /\ last' = [NoTableCall EXCEPT !.op = "write", !.ok = res.ok, !.err = res.err,
                                       !.only = only_modules]
        /\ UNCHANGED <<a, b, r, m, base_given, table>>

\* mt.read_from_file(file_name)
TableRead ==
    LET res == read_from_file(table, file) IN
    /\ table' = res.obj
    /\ last' = [NoTableCall EXCEPT !.op = "read", !.ok = res.ok, !.err = res.err]
    /\ UNCHANGED <<a, b, r, m, base_given, file>>

\* arrays put into the file by another program: the records of any list of
\* modules, and one array whose second record holds an address out of range
ForeignFiles ==
    {[i \in DOMAIN ms |-> to_dict(ms[i])] : ms \in ModuleLists}
    \cup {<<Record("b", hex(0), hex(0), hex(0), 0, NonePath),
            Record("a", hex(0), hex(ADDR_MAX_VAL + 1), hex(0), 0, NonePath)>>}

\* the file is written by another program
FileForeign ==
    \E records \in ForeignFiles :
        /\ file' = [NoFile EXCEPT !.exists = TRUE, !.json = TRUE, !.records = records,
                                  !.by = "foreign"]
        /\ last' = [NoTableCall EXCEPT !.op = "foreign"]
        /\ UNCHANGED <<a, b, r, m, base_given, table>>

NextTable == TableNew \/ TableSetModules \/ TableSetPaths \/ TableFill \/ TableToJson

Spec == InitTable /\ [][NextTable]_vars

\* the table and its file: construction, paths, write_to_file and read_from_file
NextFile ==
    TableNew \/ TableSetModules \/ TableSetPaths \/ TableWrite \/ TableRead \/ FileForeign

SpecFile == InitTable /\ [][NextFile]_vars

----------------------------------------------------------------------------
(* Claims about the table *)

Names(ms) == {ms[i].name : i \in DOMAIN ms}
Range(s) == {s[i] : i \in DOMAIN s}

\* two different modules (or records) of ms bear the same name
DuplicateNames(ms) ==
    \E i, j \in DOMAIN ms : i # j /\ ms[i].name = ms[j].name /\ ms[i] # ms[j]

\* the last call was handed two different modules (or records) of the same name
DuplicateInput ==
    \/ last.op \in {"new", "setter"} /\ DuplicateNames(last.ms)
    \/ last.op = "read" /\ file.exists /\ file.json /\ DuplicateNames(file.records)

\* C1: building a table (constructor, modules setter) or loading it with
\* read_from_file from input in which two modules share a name fails, and
\* the table is left as it was before the call.
C1_DuplicateNameRejected ==
    [][DuplicateInput' => (~last'.ok /\ table' = table)]_vars

\* a module whose text fields were derived: a size is set and the end matches
AddressComplete(x) ==
    x.t_size # 0 /\ x.t_end.value = x.t_start.value + x.t_size

\* C2: once every contained module is address-complete, enumerating
\* TdvfModuleTable.modules yields non-decreasing text_start values.
C2_EnumerationSorted ==
    table.attr /\ (\A i \in DOMAIN table.modules : AddressComplete(table.modules[i]))
        => \A i \in 1 .. Len(table.modules) - 1 :
              table.modules[i].t_start.value <= table.modules[i + 1].t_start.value

\* C4: a file written by write_to_file without a name filter, loaded with
\* read_from_file, gives a table with the modules of the table written: the
\* same names and, for each name, the same fields.
C4_RoundTrip ==
    last.op = "read" /\ file.json /\ file.by = "table" /\ file.only = <<>> =>
        /\ last.ok
        /\ table.attr
        /\ Range(table.modules) = Range(file.src)

\* C4 for the tables that hold a module
C4_RoundTripNonEmpty ==
    last.op = "read" /\ file.json /\ file.by = "table" /\ file.only = <<>>
        /\ file.src # <<>> =>
        /\ last.ok
        /\ table.attr
        /\ Range(table.modules) = Range(file.src)

UnfilteredRestricted(only_modules) ==
    SelectSeq([i \in DOMAIN table.modules |-> to_dict(table.modules[i])],
              LAMBDA d : \E k \in DOMAIN only_modules : only_modules[k] = d.name)

\* C8: to_json with a name filter emits the subsequence of the unfiltered
\* output restricted to the filtered names, whatever the order of the filter.
C8_FilterKeepsTableOrder ==
    last.op = "to_json" /\ last.ok /\ last.only # <<>> =>
        last.out = UnfilteredRestricted(last.only)

\* C8 as amended: to_json with a name filter emits one record per listed
\* name, in the order in which the filter lists the names; each is the
\* record of the table's module of that name.
C8_FilterOrder ==
    last.op = "to_json" /\ last.ok /\ last.only # <<>> =>
        /\ Len(last.out) = Len(last.only)
        /\ \A k \in DOMAIN last.only :
              /\ last.out[k].name = last.only[k]
              /\ \E i \in DOMAIN table.modules : last.out[k] = to_dict(table.modules[i])

\* a filter that lists two names against the table's order
C8_Witness ==
    /\ last.op = "to_json" /\ last.ok /\ Len(last.only) = 2 /\ Len(table.modules) = 2
    /\ last.only[1] = table.modules[2].name /\ last.only[2] = table.modules[1].name
    /\ table.modules[1].t_start.value < table.modules[2].t_start.value

\* C10: after read_from_file returns, the table is enumerable and its names
\* are exactly the names in the file.
C10_NamesAsInFile ==
    last.op = "read" /\ last.ok =>
        /\ table.attr
        /\ Names(table.modules) = Names(file.records)

====
